---------------------------- MODULE Spec2Model ----------------------------
(***************************************************************************)
(* Model of src/public_api.py: the four cached endpoints of the public     *)
(* market-data API (get_ohlcv, get_dividends, get_splits, get_info), the   *)
(* module-level cachetools.TTLCache they share, the symbol normaliser and  *)
(* the yfinance-backed fetchers.                                           *)
(*                                                                         *)
(* FastAPI runs a plain `def` endpoint in a worker thread, so several      *)
(* handlers are in flight at once; each handler touches the shared cache   *)
(* in separate operations (`key in cache`, `cache[key]`, `cache[key] = v`) *)
(* with nothing held in between.  The model gives every in-flight request  *)
(* a program counter and makes each cache operation one atomic step.       *)
(*                                                                         *)
(* Strings that the code inspects character by character (symbols) are     *)
(* sequences of one-character strings.  Dates are day numbers; a cached    *)
(* date is a timestamp (day, time of day) and the response carries the     *)
(* calendar day only.                                                      *)
(***************************************************************************)
EXTENDS Integers, Sequences, FiniteSets, TLC

(***************************************************************************)
(* Bounds of the model.                                                    *)
(***************************************************************************)
\* Capacity of the cache in the model (the code's maxsize is 256, line 49).
CacheCap == 2
\* The clock runs from 0 to MaxTime in steps of TickStep seconds.
TickStep == 300
MaxTime == 600
\* Calendar days are 1..MaxDay.
MaxDay == 4
\* Pagination inputs: offset in 0..MaxOffset, limit in 1..MaxLimit.
MaxOffset == 3
MaxLimit == 3
\* Raw symbols given to the normaliser have at most MaxLen characters.
MaxLen == 5

(***************************************************************************)
(* Program constants.                                                      *)
(***************************************************************************)
ttl == 600

Days == 1..MaxDay
Times == {t \in 0..MaxTime : t % TickStep = 0}

Min(a, b) == IF a <= b THEN a ELSE b

(***************************************************************************)
(* Strings: str.strip, str.upper, str.endswith, str.isdigit on s[:1].      *)
(***************************************************************************)
Chars == {" ", "2", ".", "t", "W", "o"}

UpperChar(c) ==
    CASE c = "t" -> "T"
      [] c = "w" -> "W"
      [] c = "o" -> "O"
      [] OTHER -> c

upper(s) == [i \in 1..Len(s) |-> UpperChar(s[i])]

IsSpace(c) == c = " "

IsDigitChar(c) == c \in {"0", "1", "2", "3", "4", "5", "6", "7", "8", "9"}

RECURSIVE lstrip(_)
lstrip(s) == IF s # <<>> /\ IsSpace(Head(s)) THEN lstrip(Tail(s)) ELSE s

RECURSIVE rstrip(_)
rstrip(s) ==
    IF s # <<>> /\ IsSpace(s[Len(s)]) THEN rstrip(SubSeq(s, 1, Len(s) - 1)) ELSE s

strip(s) == rstrip(lstrip(s))

endswith(s, suffix) ==
    /\ Len(s) >= Len(suffix)
    /\ SubSeq(s, Len(s) - Len(suffix) + 1, Len(s)) = suffix

\* s[:1].isdigit(): the empty slice of an empty string is not a digit.
FirstIsDigit(s) == s # <<>> /\ IsDigitChar(s[1])

DotTW == <<".", "T", "W">>
DotTWO == <<".", "T", "W", "O">>

\* A normaliser that forgets the test for an existing suffix.
_symbol_norm_any_digit(symbol) ==
    LET s == upper(strip(symbol))
    IN  IF FirstIsDigit(s) THEN s \o DotTW ELSE s

_symbol_norm(symbol) ==
    LET s == upper(strip(symbol))
    IN  IF endswith(s, DotTW) \/ endswith(s, DotTWO) THEN s
        ELSE IF FirstIsDigit(s) THEN s \o DotTW
        ELSE s

(***************************************************************************)
(* Values: rows of the frames the fetchers build, and the info dict.       *)
(***************************************************************************)
\* A pandas Timestamp of a daily record: the day at midnight.
Timestamp(d) == [day |-> d, time |-> 0]

\* Series.dt.strftime("%Y-%m-%d"): the calendar day, the time of day dropped.
strftime(ts) == ts.day

\* The provider's rows for a set of days, in ascending date order.
RECURSIVE Rows(_, _)
Rows(kind, days) ==
    IF days = {} THEN <<>>
    ELSE LET d == CHOOSE x \in days : \A y \in days : x <= y
             row == CASE kind = "ohlcv" ->
                           [date |-> Timestamp(d), open |-> d, high |-> d + 1,
                            low |-> d - 1, close |-> d, adj_close |-> d,
                            volume |-> 100 * d]
                      [] kind = "div" -> [date |-> Timestamp(d), cash |-> d]
                      [] OTHER -> [date |-> Timestamp(d), ratio |-> d]
         IN  <<row>> \o Rows(kind, days \ {d})

\* What the handlers do to a frame before returning it: the date column
\* formatted, every other column as it is.
FormatRow(row) == [row EXCEPT !.date = strftime(row.date)]

to_records(frame) == [i \in 1..Len(frame) |-> FormatRow(frame[i])]

\* The info dict: every field InfoResp reads, "None" where the dict has no
\* such key (dict.get's default).
NoInfo ==
    [longName |-> "None", currency |-> "None", exchange |-> "None",
     marketCap |-> "None", sector |-> "None", industry |-> "None"]

SomeInfo ==
    [longName |-> "TSMC", currency |-> "TWD", exchange |-> "TAI",
     marketCap |-> "None", sector |-> "Technology", industry |-> "None"]

(***************************************************************************)
(* cachetools.TTLCache(maxsize, ttl), as the handlers use it.  The cache   *)
(* is the sequence of its entries in the order of its links (least         *)
(* recently used first); an entry is [key, value, expires].                *)
(***************************************************************************)
Keys(c) == {c[i].key : i \in 1..Len(c)}

Entry(c, k) == c[CHOOSE i \in 1..Len(c) : c[i].key = k]

Without(c, k) == SelectSeq(c, LAMBDA e : e.key # k)

\* A membership test that looks at the links only, not at the clock.
contains_ignoring_ttl(c, k, t) == k \in Keys(c)

\* TTLCache.__contains__: the key is linked and its link has not expired.
contains(c, k, t) == k \in Keys(c) /\ t < Entry(c, k).expires

\* TTLCache.__getitem__ finds the link first, which moves it to the end.
getlink(c, k) == IF k \in Keys(c) THEN Without(c, k) \o <<Entry(c, k)>> ELSE c

\* TTLCache.__getitem__ returns the value of a linked, unexpired key and
\* raises KeyError otherwise (a missing key, or __missing__ of an expired one).
getitem_found(c, k, t) == k \in Keys(c) /\ t < Entry(c, k).expires

\* TTLCache.expire: every entry whose time has come is removed.
expire(c, t) == SelectSeq(c, LAMBDA e : t < e.expires)

\* Cache.__setitem__ pops items until the new one fits; TTLCache.popitem
\* pops the first link.
RECURSIVE popitems(_)
popitems(c) == IF Len(c) + 1 > CacheCap THEN popitems(Tail(c)) ELSE c

\* A __setitem__ that never makes room.
setitem_no_evict(c, k, v, t) ==
    Without(expire(c, t), k) \o <<[key |-> k, value |-> v, expires |-> t + ttl]>>

\* A store that leaves the value of a key already there (dict.setdefault).
setitem_keeps_old(c, k, v, t) ==
    LET c1 == expire(c, t)
        c2 == IF k \in Keys(c1) THEN c1 ELSE popitems(c1)
        old == IF k \in Keys(c1) THEN Entry(c1, k).value ELSE v
    IN  Without(c2, k) \o <<[key |-> k, value |-> old, expires |-> t + ttl]>>

\* TTLCache.__setitem__: expire, make room for a new key, store the value and
\* link the key at the end with a fresh expiry time.
setitem(c, k, v, t) ==
    LET c1 == expire(c, t)
        c2 == IF k \in Keys(c1) THEN c1 ELSE popitems(c1)
    IN  Without(c2, k) \o <<[key |-> k, value |-> v, expires |-> t + ttl]>>

(***************************************************************************)
(* The upstream provider and the fetchers.  A reply of the provider is     *)
(* [ok, days, info]: whether the call returned at all, the days on which   *)
(* the provider holds a record for the symbol, and its info dict ("None"   *)
(* when it has none).                                                      *)
(***************************************************************************)
\* yf.download(symbol, start=start, end=end): yfinance's `end` is exclusive.
yf_download(days, start, end) == {d \in days : start <= d /\ d < end}

\* _fetch_ohlcv: start and end go to yf.download as they came; an empty
\* answer becomes an empty frame.
_fetch_ohlcv(days, start, end) ==
    LET got == Rows("ohlcv", yf_download(days, start, end))
    IN  IF got = <<>> THEN <<>> ELSE got

\* _fetch_dividends: every dividend of the ticker, then the rows whose date is
\* in the closed interval [start, end].
_fetch_dividends(days, start, end) ==
    Rows("div", {d \in days : Timestamp(d).day >= start /\ Timestamp(d).day <= end})

\* _fetch_splits: the same, on the ticker's splits.
_fetch_splits(days, start, end) ==
    Rows("split", {d \in days : Timestamp(d).day >= start /\ Timestamp(d).day <= end})

\* _fetch_info: tk.info or {}.  The provider's info is "None", "empty" or
\* "full"; None and the empty dict both come out as the empty dict.
_fetch_info(info) == IF info = "full" THEN SomeInfo ELSE NoInfo

\* The fetcher a handler calls on a miss, by kind.
Fetched(q, reply) ==
    CASE q.kind = "ohlcv" -> _fetch_ohlcv(reply.days, q.start, q.end)
      [] q.kind = "div"   -> _fetch_dividends(reply.days, q.start, q.end)
      [] q.kind = "split" -> _fetch_splits(reply.days, q.start, q.end)
      [] OTHER            -> _fetch_info(reply.info)

(***************************************************************************)
(* The handlers' local computations.                                       *)
(***************************************************************************)
\* key = (kind, sym, start, end), or (kind, sym) for info.
Key(q) ==
    IF q.kind = "info" THEN <<"info", _symbol_norm(q.symbol)>>
    ELSE <<q.kind, _symbol_norm(q.symbol), q.start, q.end>>

\* A page whose upper end forgets the offset.
iloc_limit_only(df, offset, limit) ==
    SubSeq(df, Min(offset, Len(df)) + 1, Min(limit, Len(df)))

\* get_ohlcv's page: df.iloc[min(offset, total) : min(offset + limit, total)].
iloc(df, offset, limit) ==
    LET total == Len(df)
        lo == Min(offset, total)
        hi == Min(offset + limit, total)
    IN  SubSeq(df, lo + 1, hi)

\* The body of the response built from the frame or dict the handler holds.
Shape(q, df) ==
    CASE q.kind = "ohlcv" -> to_records(iloc(df, q.offset, q.limit))
      [] q.kind = "info"  -> [symbol |-> _symbol_norm(q.symbol)] @@ df
      [] OTHER            -> to_records(df)

\* What the client gets when an exception leaves a handler: no handler
\* catches anything, so FastAPI answers with its generic 500.
ErrorStatus(exc) == 500

(***************************************************************************)
(* State.                                                                  *)
(***************************************************************************)
Threads == {"t1", "t2"}

VARIABLES
    now,        \* the cache's timer (time.monotonic)
    cache,      \* the module-level TTLCache
    pc,         \* per thread: "idle", "read", "fetch", "store", "done"
    req,        \* per thread: the request's query parameters
    df,         \* per thread: the handler's local df (info in get_info)
    status,     \* per thread: the HTTP status of the response, 0 before it
    error,      \* per thread: the exception that ended the handler, or "none"
    resp,       \* per thread: the body of a 200 response
    path,       \* history: how `key in cache` came out: "hit", "miss", "expired"
    seen,       \* history: the value the cache held for the key at a hit
    lost,       \* history: the key's entry expired or was evicted since the hit
    endBar,     \* history: the provider held a bar dated `end` at the fetch
    lastEmpty,  \* history: key and expiry time of the latest empty result stored
    norm        \* the normaliser on its own: input, result, result of the result

vars ==
    <<now, cache, pc, req, df, status, error, resp, path, seen, lost, endBar,
      lastEmpty, norm>>

NoReq ==
    [kind |-> "none", symbol |-> <<>>, start |-> 0, end |-> 0, offset |-> 0,
     limit |-> 0]

NoEmpty == [key |-> <<>>, until |-> 0]

NormOff == [stage |-> "off", raw |-> <<>>, once |-> <<>>, twice |-> <<>>]

Init ==
    /\ now = 0
    /\ cache = <<>>
    /\ pc = [t \in Threads |-> "idle"]
    /\ req = [t \in Threads |-> NoReq]
    /\ df = [t \in Threads |-> <<>>]
    /\ status = [t \in Threads |-> 0]
    /\ error = [t \in Threads |-> "none"]
    /\ resp = [t \in Threads |-> <<>>]
    /\ path = [t \in Threads |-> "none"]
    /\ seen = [t \in Threads |-> <<>>]
    /\ lost = [t \in Threads |-> FALSE]
    /\ endBar = [t \in Threads |-> FALSE]
    /\ lastEmpty = NoEmpty
    /\ norm = NormOff

(***************************************************************************)
(* The handlers, one action per step between two accesses to the cache.    *)
(* get_ohlcv, get_dividends, get_splits and get_info are the same code up  *)
(* to the kind in the key, the fetcher called and the shape of the body.   *)
(***************************************************************************)
\* A request arrives: the symbol is normalised, the key built, and
\* `key in cache` evaluated (lines 171-173, 194-196, 214-216, 230-232).
Check(t, q) ==
    /\ pc[t] = "idle"
    /\ req' = [req EXCEPT ![t] = q]
    /\ IF contains(cache, Key(q), now)
       THEN /\ pc' = [pc EXCEPT ![t] = "read"]
            /\ path' = [path EXCEPT ![t] = "hit"]
            /\ seen' = [seen EXCEPT ![t] = Entry(cache, Key(q)).value]
       ELSE /\ pc' = [pc EXCEPT ![t] = "fetch"]
            /\ path' = [path EXCEPT ![t] =
                           IF Key(q) \in Keys(cache) THEN "expired" ELSE "miss"]
            /\ seen' = seen
    /\ UNCHANGED <<now, cache, df, status, error, resp, lost, endBar, lastEmpty,
                   norm>>

\* df = cache[key] and the rest of the handler (lines 174, 178-184).  A key
\* that is no longer there raises KeyError, which nothing catches.
Read(t) ==
    /\ pc[t] = "read"
    /\ cache' = getlink(cache, Key(req[t]))
    /\ IF getitem_found(cache, Key(req[t]), now)
       THEN /\ df' = [df EXCEPT ![t] = Entry(cache, Key(req[t])).value]
            /\ resp' = [resp EXCEPT ![t] =
                           Shape(req[t], Entry(cache, Key(req[t])).value)]
            /\ status' = [status EXCEPT ![t] = 200]
            /\ error' = error
       ELSE /\ status' = [status EXCEPT ![t] = ErrorStatus("KeyError")]
            /\ error' = [error EXCEPT ![t] = "KeyError"]
            /\ UNCHANGED <<df, resp>>
    /\ pc' = [pc EXCEPT ![t] = "done"]
    /\ UNCHANGED <<now, req, path, seen, lost, endBar, lastEmpty, norm>>

\* df = _fetch_xxx(sym, start, end) returns (lines 176, 199, 219, 235).
FetchReturns(t, reply) ==
    /\ pc[t] = "fetch"
    /\ df' = [df EXCEPT ![t] = Fetched(req[t], reply)]
    /\ endBar' = [endBar EXCEPT ![t] =
                     req[t].kind = "ohlcv" /\ req[t].end \in reply.days]
    /\ pc' = [pc EXCEPT ![t] = "store"]
    /\ UNCHANGED <<now, cache, req, status, error, resp, path, seen, lost,
                   lastEmpty, norm>>

\* A handler that catches the fetcher's exception and caches an empty frame.
AfterRaise_caches_empty(c, k, t) == setitem(c, k, <<>>, t)

\* What a handler leaves in the cache when its fetcher raises: the exception
\* passes the store, so the cache stays as it is.
AfterRaise(c, k, t) == c

\* The fetcher raises (the provider's call fails); the exception leaves the
\* handler.
FetchRaises(t) ==
    /\ pc[t] = "fetch"
    /\ cache' = AfterRaise(cache, Key(req[t]), now)
    /\ status' = [status EXCEPT ![t] = ErrorStatus("UpstreamError")]
    /\ error' = [error EXCEPT ![t] = "UpstreamError"]
    /\ pc' = [pc EXCEPT ![t] = "done"]
    /\ UNCHANGED <<now, req, df, resp, path, seen, lost, endBar, lastEmpty, norm>>

\* A handler that stores a frame only when it has rows.
Put_unless_empty(c, q, d, t) ==
    IF q.kind # "info" /\ d = <<>> THEN c ELSE setitem(c, Key(q), d, t)

\* cache[key] = df (lines 177, 200, 220, 236).
Put(c, q, d, t) == setitem(c, Key(q), d, t)

\* The keys that outlive the expiry and the eviction of a store under k.
Survivors(c, k, t) ==
    IF k \in Keys(expire(c, t)) THEN Keys(expire(c, t))
    ELSE Keys(popitems(expire(c, t)))

\* cache[key] = df and the rest of the handler (lines 177-184, 200-204,
\* 220-224, 236-245).
Store(t) ==
    /\ pc[t] = "store"
    /\ cache' = Put(cache, req[t], df[t], now)
    /\ resp' = [resp EXCEPT ![t] = Shape(req[t], df[t])]
    /\ status' = [status EXCEPT ![t] = 200]
    /\ pc' = [pc EXCEPT ![t] = "done"]
    /\ lost' = [u \in Threads |->
                  \/ lost[u]
                  \/ /\ pc[u] = "read"
                     /\ Key(req[u]) \notin Survivors(cache, Key(req[t]), now)]
    /\ lastEmpty' =
          IF req[t].kind # "info" /\ df[t] = <<>>
          THEN [key |-> Key(req[t]), until |-> now + ttl]
          ELSE IF lastEmpty.key = Key(req[t]) THEN NoEmpty ELSE lastEmpty
    /\ UNCHANGED <<now, req, df, error, path, seen, endBar, norm>>

\* The response has gone out; the thread is free for the next request.
Finish(t) ==
    /\ pc[t] = "done"
    /\ pc' = [pc EXCEPT ![t] = "idle"]
    /\ req' = [req EXCEPT ![t] = NoReq]
    /\ df' = [df EXCEPT ![t] = <<>>]
    /\ status' = [status EXCEPT ![t] = 0]
    /\ error' = [error EXCEPT ![t] = "none"]
    /\ resp' = [resp EXCEPT ![t] = <<>>]
    /\ path' = [path EXCEPT ![t] = "none"]
    /\ seen' = [seen EXCEPT ![t] = <<>>]
    /\ lost' = [lost EXCEPT ![t] = FALSE]
    /\ endBar' = [endBar EXCEPT ![t] = FALSE]
    /\ UNCHANGED <<now, cache, lastEmpty, norm>>

\* Time passes.
Tick ==
    /\ now + TickStep <= MaxTime
    /\ now' = now + TickStep
    /\ UNCHANGED <<cache, pc, req, df, status, error, resp, path, seen, lost,
                   endBar, lastEmpty, norm>>

(***************************************************************************)
(* The service under concurrent requests of every kind.                    *)
(***************************************************************************)
Kinds == {"ohlcv", "div", "split", "info"}

MainRequests ==
    {[kind |-> k, symbol |-> s, start |-> IF k = "info" THEN 0 ELSE 1,
      end |-> IF k = "info" THEN 0 ELSE 2, offset |-> 0,
      limit |-> IF k = "ohlcv" THEN MaxLimit ELSE 0] :
        k \in Kinds, s \in {<<"2">>}}

MainReplies(kind) ==
    CASE kind = "ohlcv" -> {[days |-> D, info |-> "None"] : D \in {{}, {1, 2}}}
      [] kind = "info"  -> {[days |-> {}, info |-> "full"]}
      [] OTHER          -> {[days |-> {1}, info |-> "None"]}

Next ==
    \/ \E t \in Threads :
          \/ \E q \in MainRequests : Check(t, q)
          \/ Read(t)
          \/ \E reply \in MainReplies(req[t].kind) : FetchReturns(t, reply)
          \/ FetchRaises(t)
          \/ Store(t)
          \/ Finish(t)
    \/ Tick

Spec == Init /\ [][Next]_vars

(***************************************************************************)
(* The bars endpoint alone, one request after the other, over every        *)
(* provider series, several windows and every page.                        *)
(***************************************************************************)
BarWindows == {<<1, MaxDay>>, <<2, 3>>, <<2, 2>>}

BarRequests ==
    {[kind |-> "ohlcv", symbol |-> <<"t">>, start |-> w[1], end |-> w[2],
      offset |-> o, limit |-> l] :
        w \in BarWindows, o \in 0..MaxOffset, l \in 1..MaxLimit}

BarReplies == {[days |-> D, info |-> "None"] : D \in SUBSET Days}

NextBars ==
    \/ \E q \in BarRequests : Check("t1", q)
    \/ Read("t1")
    \/ \E reply \in BarReplies : FetchReturns("t1", reply)
    \/ FetchRaises("t1")
    \/ Store("t1")
    \/ Finish("t1")
    \/ Tick

SpecBars == Init /\ [][NextBars]_vars

(***************************************************************************)
(* The normaliser alone, applied to every raw symbol and then to its own   *)
(* result.                                                                 *)
(***************************************************************************)
RawSymbols == UNION {[1..n -> Chars] : n \in 0..MaxLen}

InitNorm ==
    /\ now = 0
    /\ cache = <<>>
    /\ pc = [t \in Threads |-> "idle"]
    /\ req = [t \in Threads |-> NoReq]
    /\ df = [t \in Threads |-> <<>>]
    /\ status = [t \in Threads |-> 0]
    /\ error = [t \in Threads |-> "none"]
    /\ resp = [t \in Threads |-> <<>>]
    /\ path = [t \in Threads |-> "none"]
    /\ seen = [t \in Threads |-> <<>>]
    /\ lost = [t \in Threads |-> FALSE]
    /\ endBar = [t \in Threads |-> FALSE]
    /\ lastEmpty = NoEmpty
    /\ \E x \in RawSymbols :
          norm = [stage |-> "raw", raw |-> x, once |-> <<>>, twice |-> <<>>]

\* sym = _symbol_norm(symbol).
Normalise ==
    /\ norm.stage = "raw"
    /\ norm' = [norm EXCEPT !.stage = "once", !.once = _symbol_norm(norm.raw)]
    /\ UNCHANGED <<now, cache, pc, req, df, status, error, resp, path, seen, lost,
                   endBar, lastEmpty>>

\* The result given to the normaliser again.
Renormalise ==
    /\ norm.stage = "once"
    /\ norm' = [norm EXCEPT !.stage = "twice", !.twice = _symbol_norm(norm.once)]
    /\ UNCHANGED <<now, cache, pc, req, df, status, error, resp, path, seen, lost,
                   endBar, lastEmpty>>

NextNorm == Normalise \/ Renormalise

SpecNorm == InitNorm /\ [][NextNorm]_vars

(***************************************************************************)
(* Steps of a thread, as seen from outside.                                *)
(***************************************************************************)
Arrives(t) == pc[t] = "idle" /\ pc'[t] # "idle"
ReadsOk(t) == pc[t] = "read" /\ pc'[t] = "done" /\ status'[t] = 200
Raises(t) == pc[t] = "fetch" /\ pc'[t] = "done"
Stores(t) == pc[t] = "store" /\ pc'[t] = "done"

\* The cache holds an entry for k whose time has come.
Expired(c, k, t) == k \in Keys(c) /\ ~(t < Entry(c, k).expires)

(***************************************************************************)
(* C1.  Access to the shared cache is safe under concurrent requests: a    *)
(* handler that has seen `key in cache` true never fails on the read of    *)
(* cache[key] that follows, whatever the other handlers, the expiry and    *)
(* the eviction do in between.                                             *)
(***************************************************************************)
C1_CacheAccessSafe ==
    \A t \in Threads : path[t] = "hit" => error[t] # "KeyError"

(***************************************************************************)
(* C2.  Once the ttl of the entry for K has passed, a request for K is a   *)
(* miss: it goes to the fetcher, what it stores is the fetched value with  *)
(* a full ttl ahead of it, and a value read from the cache is never one    *)
(* whose time has come.                                                    *)
(***************************************************************************)
C2_ExpiredIsMiss ==
    [][\A t \in Threads :
          /\ (Arrives(t) /\ Expired(cache, Key(req'[t]), now))
                => pc'[t] = "fetch"
          /\ (Stores(t) /\ path[t] = "expired")
                => /\ Key(req[t]) \in Keys(cache')
                   /\ Entry(cache', Key(req[t])).value = df[t]
                   /\ Entry(cache', Key(req[t])).expires = now + ttl
                   /\ resp'[t] = Shape(req[t], df[t])
          /\ ReadsOk(t)
                => /\ ~Expired(cache, Key(req[t]), now)
                   /\ Key(req[t]) \in Keys(cache)
        ]_vars

\* A request that found its key expired has fetched again and stored.
C2_Witness ==
    \E t \in Threads :
        /\ pc[t] = "done" /\ path[t] = "expired" /\ status[t] = 200
        /\ Key(req[t]) \in Keys(cache)
        /\ Entry(cache, Key(req[t])).expires = now + ttl

(***************************************************************************)
(* C4.  A failed fetch is never cached: neither the lookup of a request    *)
(* that misses nor the failure of its fetcher changes the cache, and the   *)
(* request ends without a body.                                            *)
(***************************************************************************)
C4_FailureNotCached ==
    [][\A t \in Threads :
          /\ (Arrives(t) /\ pc'[t] = "fetch") => cache' = cache
          /\ Raises(t) => /\ cache' = cache
                          /\ status'[t] # 200
                          /\ resp'[t] = <<>>
        ]_vars

\* A fetcher has failed and the key it was called for is not in the cache.
C4_Witness ==
    \E t \in Threads :
        /\ pc[t] = "done" /\ error[t] = "UpstreamError"
        /\ Key(req[t]) \notin Keys(cache)

(***************************************************************************)
(* C5.  When the provider fails, the handler ends the request with a 502   *)
(* (bad gateway) response, not with a success and not with the generic     *)
(* answer to an unhandled exception.                                       *)
(***************************************************************************)
C5_BadGateway ==
    \A t \in Threads : error[t] = "UpstreamError" => status[t] = 502

C6_Original ==
    [][\A t \in Threads :
          (Arrives(t) /\ Key(req'[t]) = lastEmpty.key /\ now < lastEmpty.until)
              => pc'[t] = "read"
        ]_vars

(***************************************************************************)
(* C6, amended.  An empty result is cached like any other: the store of    *)
(* an empty frame leaves an unexpired empty entry under the key, and a     *)
(* request that reads an empty entry returns an empty sequence without     *)
(* calling the fetcher.  (The entry lasts until its ttl passes, it is      *)
(* evicted for capacity or a later store replaces it.)                     *)
(***************************************************************************)
C6_Amended ==
    [][\A t \in Threads :
          /\ (Stores(t) /\ req[t].kind # "info" /\ df[t] = <<>>)
                => /\ contains(cache', Key(req[t]), now)
                   /\ Entry(cache', Key(req[t])).value = <<>>
                   /\ resp'[t] = <<>>
          /\ (ReadsOk(t) /\ req[t].kind # "info"
                /\ Entry(cache, Key(req[t])).value = <<>>)
                => resp'[t] = <<>> /\ path[t] = "hit"
        ]_vars

\* A request has been answered with the empty frame found in the cache.
C6_Witness ==
    \E t \in Threads :
        /\ pc[t] = "done" /\ path[t] = "hit" /\ status[t] = 200
        /\ req[t].kind = "ohlcv" /\ df[t] = <<>> /\ resp[t] = <<>>

(***************************************************************************)
(* C10.  The cache never holds more entries than its capacity, an entry    *)
(* leaves it only in a store, because its ttl has passed or because the    *)
(* cache was full of unexpired entries and a new key came in, and an       *)
(* entry that stays keeps its key, value and expiry time unless the store  *)
(* is for its key.                                                         *)
(***************************************************************************)
C10_CapacityAndTtlOnly ==
    [][/\ Len(cache') <= CacheCap
       /\ Cardinality(Keys(cache')) = Len(cache')
       /\ \A k \in Keys(cache) \ Keys(cache') :
             /\ \E t \in Threads : Stores(t)
             /\ \/ Expired(cache, k, now)
                \/ /\ Len(expire(cache, now)) >= CacheCap
                   /\ Keys(cache') \ Keys(cache) # {}
       /\ \A k \in Keys(cache) \cap Keys(cache') :
             \/ Entry(cache', k) = Entry(cache, k)
             \/ \E t \in Threads : Stores(t) /\ Key(req[t]) = k
      ]_vars

\* The cache is full and an empty entry, stored and not yet expired, has
\* been evicted from it.
C10_Witness ==
    /\ Len(cache) = CacheCap
    /\ lastEmpty # NoEmpty
    /\ now < lastEmpty.until
    /\ lastEmpty.key \notin Keys(cache)

(***************************************************************************)
(* C7.  The bars fetch over [start, end] includes the end date: when the   *)
(* provider holds a bar dated `end`, that bar is in the fetched frame, and *)
(* every fetched bar is dated within [start, end].                         *)
(***************************************************************************)
C7_EndIncluded ==
    \A t \in Threads :
        (pc[t] \in {"store", "done"} /\ req[t].kind = "ohlcv"
            /\ path[t] # "hit" /\ error[t] = "none")
            => /\ endBar[t]
                    => \E i \in 1..Len(df[t]) :
                          df[t][i].date = Timestamp(req[t].end)
               /\ \A i \in 1..Len(df[t]) :
                     /\ req[t].start <= df[t][i].date.day
                     /\ df[t][i].date.day <= req[t].end

(***************************************************************************)
(* C8.  Bars pagination clamps and never fails: over a cached frame of N   *)
(* rows the response holds the rows at positions min(offset, N) up to but  *)
(* excluding min(offset + limit, N), in the cached order; an offset of N   *)
(* or more gives nothing and offset 0 with a limit of N or more gives      *)
(* every row.                                                              *)
(***************************************************************************)
C8_PaginationClamps ==
    \A t \in Threads :
        (pc[t] = "done" /\ req[t].kind = "ohlcv" /\ error[t] = "none")
            => LET N == Len(df[t])
                   offset == req[t].offset
                   limit == req[t].limit
                   first == IF offset < N THEN offset ELSE N
                   count == IF offset >= N THEN 0
                            ELSE IF limit <= N - offset THEN limit
                            ELSE N - offset
               IN  /\ status[t] = 200
                   /\ Len(resp[t]) = count
                   /\ \A i \in 1..count :
                         /\ resp[t][i].date = df[t][first + i].date.day
                         /\ resp[t][i].close = df[t][first + i].close
                   /\ offset >= N => resp[t] = <<>>
                   /\ (offset = 0 /\ limit >= N) => Len(resp[t]) = N

\* A page that starts inside the frame and is cut short by its end.
C8_Witness ==
    \E t \in Threads :
        /\ pc[t] = "done" /\ req[t].kind = "ohlcv" /\ status[t] = 200
        /\ path[t] = "hit"
        /\ req[t].offset >= 1
        /\ req[t].offset < Len(df[t])
        /\ req[t].offset + req[t].limit > Len(df[t])
        /\ Len(resp[t]) = Len(df[t]) - req[t].offset

====
